---- MODULE Spec2Model ----
(***************************************************************************)
(* The real-time chat relay of chat/server.js: the Registry of live        *)
(* connections (clients), the bounded History Buffer (messageHistory) and  *)
(* the handlers the server registers on the WebSocket server and on each   *)
(* socket.  Every handler runs to completion (Node's event loop), so each  *)
(* handler is one action.  Timestamps (new Date().toISOString()) are left  *)
(* out of the envelopes: no handler reads them back.                       *)
(***************************************************************************)
EXTENDS Integers, Sequences, FiniteSets, TLC

\* ------------------------------------------------------------------ bounds
MaxConns == 2          \* sockets the environment opens in one run
MaxEvents == 2         \* inbound messages plus transport faults (error, close
                       \* frame, lost link) in one run
WarmGap == 1           \* SpecWarm starts with HistoryLimit - WarmGap entries
MaxReconnects == 2     \* sockets of the simple chat client that close in one run

\* ------------------------------------------------------- program constants
HistoryLimit == 100    \* server.js:100-101

\* ------------------------------------------------------------- value pools
Sockets == 1..MaxConns
\* Outcomes of Math.random().toString(36).substr(2, 9): strings over [0-9a-z]
\* of at most 9 characters; nothing in the code makes two draws differ.
ClientIdPool == {"k3f9a02bx", "b41"}
MsgIdPool == {"m7d1", "p0s2"}
Texts == {"hi"}
Names == {"Carl"}
\* JavaScript's undefined (a property that is absent reads as undefined).
Undefined == "<undefined>"
\* excludeClientId = null, the default parameter of broadcast.
Null == "<null>"
\* The closure variable clientId of a socket whose connection handler has not run.
Unset == "<unset>"

\* ------------------------------------------------------------------- state
VARIABLES
  clients,         \* the Map clientId -> {ws, id, username}, in insertion order
  messageHistory,  \* the array of chat messages
  readyState,      \* ws.readyState of every socket ("NONE": not yet opened)
  clientId,        \* the const clientId in the closure of each socket's handlers
  broken,          \* the open sockets whose transport no longer carries data
  inbox,           \* per socket, the envelopes the transport delivered to the peer
  handled,         \* number of inbound messages handled so far
  faults,          \* number of transport faults so far
  renamed,         \* per socket, the name its last rename request carried
  ev,              \* the event whose handler ran last, with its inputs
  \* the browser side: the WebSocket objects of the clients, the simple chat
  \* client (client/src/App.js) and the ChatService (frontend/src/types/chat.ts)
  webSocket,       \* readyState of every WebSocket object a client constructed
  app,             \* App.js: wsRef.current, isConnected, and whether it is mounted
  timers,          \* App.js: pending setTimeout(connectWebSocket, 3000) timers
  chatService,     \* ChatService: its fields ws and clientId
  dispatched,      \* per socket, how many received envelopes onmessage has handled
  outbox,          \* per socket, the payloads the client wrote that are in flight
  notified,        \* the Messages handed to the message listeners, in order
  connectionNotified,  \* the values handed to the connection listeners, in order
  calls            \* the sendMessage calls made: content, whether written, resolved

serverVars == <<clients, messageHistory, readyState, clientId, broken, inbox, handled, faults, renamed, ev>>
clientVars == <<webSocket, app, timers, chatService, dispatched, outbox, notified, connectionNotified, calls>>
\* What the ChatService and its listeners hold: the simple chat client leaves it alone.
serviceVars == <<chatService, dispatched, notified, connectionNotified, calls>>
vars == <<clients, messageHistory, readyState, clientId, broken, inbox, handled, faults, renamed, ev,
          webSocket, app, timers, chatService, dispatched, outbox, notified, connectionNotified, calls>>

\* ------------------------------------------------------ JavaScript helpers
Min(a, b) == IF a < b THEN a ELSE b

\* String.prototype.substr(start, length), start counted from 0.
Substr(s, start, length) == SubSeq(s, start + 1, Min(Len(s), start + length))

\* Array.prototype.slice(-n): the last n elements (all of them if fewer).
SliceLast(arr, n) == IF Len(arr) <= n THEN arr ELSE SubSeq(arr, Len(arr) - n + 1, Len(arr))

\* Reading a property: an absent property reads as undefined.
Field(obj, f) == IF f \in DOMAIN obj THEN obj[f] ELSE Undefined

\* JSON.stringify of a flat object drops the properties whose value is undefined.
StringifyFlat(obj) == [f \in {g \in DOMAIN obj : obj[g] # Undefined} |-> obj[f]]

\* JSON.stringify of an envelope: its defined properties, the messageHistory
\* array (when the envelope has one) serialised element by element.
Stringify(message) ==
  [f \in {g \in DOMAIN message : g = "messageHistory" \/ message[g] # Undefined} |->
     IF f = "messageHistory"
       THEN [i \in 1..Len(message[f]) |-> StringifyFlat(message[f][i])]
       ELSE message[f]]

\* --------------------------------------------------------- Map operations
MapHas(m, k) == \E i \in 1..Len(m) : m[i].id = k
MapIndex(m, k) == CHOOSE i \in 1..Len(m) : m[i].id = k
MapGet(m, k) == m[MapIndex(m, k)]
\* Map.prototype.set: a new key goes last, an existing key keeps its place.
MapSet(m, k, v) == IF MapHas(m, k) THEN [m EXCEPT ![MapIndex(m, k)] = v] ELSE Append(m, v)
MapDelete(m, k) == SelectSeq(m, LAMBDA e : e.id # k)
MapKeys(m) == {m[i].id : i \in 1..Len(m)}

\* ------------------------------------------------------------- transport
\* A transport that hands the peer the newest frame ahead of the earlier ones.
SendAhead(inb, down, ws, messageStr) ==
  IF ws \in down THEN inb ELSE [inb EXCEPT ![ws] = <<messageStr>> \o @]

\* ws.send(messageStr) on an open socket never throws: the frame is handed to
\* the transport, which delivers it to the peer unless the link is down
\* (the peer is gone and the server has not yet seen 'error' or 'close').
Send(inb, down, ws, messageStr) ==
  IF ws \in down THEN inb ELSE [inb EXCEPT ![ws] = Append(@, messageStr)]

\* --------------------------------------------------------------- broadcast
\* The condition under which the loop of broadcast sends to an entry.
SendsTo(client, rs, excludeClientId) ==
  client.id # excludeClientId /\ rs[client.ws] = "OPEN"

\* clients.forEach(...) from the i-th entry on, in the Map's insertion order.
RECURSIVE BroadcastFrom(_, _, _, _, _, _, _)
BroadcastFrom(cl, rs, inb, down, messageStr, excludeClientId, i) ==
  IF i > Len(cl) THEN inb
  ELSE LET client == cl[i]
           sent == IF SendsTo(client, rs, excludeClientId)
                     THEN Send(inb, down, client.ws, messageStr)
                     ELSE inb
       IN BroadcastFrom(cl, rs, sent, down, messageStr, excludeClientId, i + 1)

\* A broadcast whose loop stops at the first recipient whose send fails.
RECURSIVE BroadcastAbortFrom(_, _, _, _, _, _, _)
BroadcastAbortFrom(cl, rs, inb, down, messageStr, excludeClientId, i) ==
  IF i > Len(cl) THEN inb
  ELSE LET client == cl[i]
       IN IF SendsTo(client, rs, excludeClientId) /\ client.ws \in down THEN inb
          ELSE BroadcastAbortFrom(cl, rs,
                                  IF SendsTo(client, rs, excludeClientId)
                                    THEN Send(inb, down, client.ws, messageStr)
                                    ELSE inb,
                                  down, messageStr, excludeClientId, i + 1)

BroadcastAborting(cl, rs, inb, down, message, excludeClientId) ==
  BroadcastAbortFrom(cl, rs, inb, down, Stringify(message), excludeClientId, 1)

\* function broadcast(message, excludeClientId = null): the inboxes afterwards.
Broadcast(cl, rs, inb, down, message, excludeClientId) ==
  BroadcastFrom(cl, rs, inb, down, Stringify(message), excludeClientId, 1)

\* ---------------------------------------------------------- inbound data
\* The data of a socket 'message' event: whether JSON.parse accepts it, and
\* the properties of the parsed object that the server reads.
Payload(parses, type, text, username) ==
  [parses |-> parses, type |-> type, text |-> text, username |-> username]
Garbage == Payload(FALSE, Undefined, Undefined, Undefined)
Bogus == Payload(TRUE, "bogus", Undefined, Undefined)
ChatPayloads == {Payload(TRUE, "chat", t, Undefined) : t \in Texts \cup {Undefined}}
UsernamePayloads == {Payload(TRUE, "username", Undefined, n) : n \in Names \cup {Undefined}}
Payloads == {Garbage, Bogus} \cup ChatPayloads \cup UsernamePayloads

\* The record of the event whose handler ran last.
Event(type, ws, cid, data, rnd) ==
  [type |-> type, ws |-> ws, clientId |-> cid, data |-> data, rnd |-> rnd]

\* ------------------------------------------------------------ connection
DefaultUsername(cid) == "User" \o Substr(cid, 0, 4)

\* A connection envelope that replays nothing.
ConnectionEnvelopeEmpty(cid, username, history) ==
  [type |-> "connection", clientId |-> cid, username |-> username, messageHistory |-> <<>>]

\* The object the connection handler sends: {type, clientId, username, messageHistory}.
ConnectionEnvelope(cid, username, history) ==
  [type |-> "connection", clientId |-> cid, username |-> username, messageHistory |-> history]

\* A connection handler that sends the connection envelope to every open socket.
OnConnectionBroadcasting(ws, rnd) ==
  /\ readyState[ws] = "NONE"
  /\ \A w \in Sockets : w < ws => readyState[w] # "NONE"
  /\ readyState' = [readyState EXCEPT ![ws] = "OPEN"]
  /\ clientId' = [clientId EXCEPT ![ws] = rnd]
  /\ clients' = MapSet(clients, rnd, [ws |-> ws, id |-> rnd, username |-> DefaultUsername(rnd)])
  /\ inbox' = Broadcast(clients', readyState', inbox, broken,
                        ConnectionEnvelope(rnd, MapGet(clients', rnd).username, messageHistory),
                        Null)
  /\ ev' = Event("connection", ws, rnd, Garbage, rnd)
  /\ UNCHANGED <<messageHistory, broken, handled, faults, renamed>>

\* wss.on('connection'): the socket ws has completed its handshake; rnd is the
\* outcome of Math.random().toString(36).substr(2, 9).
OnConnection(ws, rnd) ==
  /\ readyState[ws] = "NONE"
  /\ \A w \in Sockets : w < ws => readyState[w] # "NONE"
  /\ readyState' = [readyState EXCEPT ![ws] = "OPEN"]
  /\ clientId' = [clientId EXCEPT ![ws] = rnd]
  /\ clients' = MapSet(clients, rnd, [ws |-> ws, id |-> rnd, username |-> DefaultUsername(rnd)])
  /\ inbox' = Send(inbox, broken, ws,
                   Stringify(ConnectionEnvelope(rnd, MapGet(clients', rnd).username, messageHistory)))
  /\ ev' = Event("connection", ws, rnd, Garbage, rnd)
  /\ UNCHANGED <<messageHistory, broken, handled, faults, renamed>>

\* ----------------------------------------------------------------- chat
\* A chatMessage that names its author by the default name of the identity.
ChatMessageByDefaultName(cid, message, rnd) ==
  [id |-> rnd, username |-> DefaultUsername(cid), text |-> message.text, clientId |-> cid]

\* The chatMessage object handleChatMessage builds.
ChatMessage(cid, message, rnd) ==
  [id |-> rnd, username |-> MapGet(clients, cid).username, text |-> message.text, clientId |-> cid]

\* A push that keeps everything: no slice(-100).
PushUnbounded(history, chatMessage) == Append(history, chatMessage)

\* A push that evicts from the wrong end: slice(0, 100).
PushKeepOldest(history, chatMessage) ==
  LET pushed == Append(history, chatMessage)
  IN IF Len(pushed) > HistoryLimit THEN SubSeq(pushed, 1, HistoryLimit) ELSE pushed

\* messageHistory.push(chatMessage), then slice(-100) when longer than 100.
Push(history, chatMessage) ==
  LET pushed == Append(history, chatMessage)
  IN IF Len(pushed) > HistoryLimit THEN SliceLast(pushed, HistoryLimit) ELSE pushed

\* The envelope broadcast for a chat message: {type: 'message', ...chatMessage}.
MessageEnvelope(chatMessage) == [type |-> "message"] @@ chatMessage

\* A chat handler that fills in a placeholder author for an unknown identity.
HandleChatMessagePlaceholder(cid, message, rnd) ==
  LET chatMessage == IF MapHas(clients, cid)
                       THEN ChatMessage(cid, message, rnd)
                       ELSE [id |-> rnd, username |-> "Unknown",
                             text |-> message.text, clientId |-> cid]
  IN /\ messageHistory' = Push(messageHistory, chatMessage)
     /\ inbox' = Broadcast(clients, readyState, inbox, broken, MessageEnvelope(chatMessage), Null)
     /\ UNCHANGED clients

\* A chat handler that leaves the sender out of the broadcast.
HandleChatMessageExcludingSender(cid, message, rnd) ==
  IF ~MapHas(clients, cid)
    THEN UNCHANGED <<clients, messageHistory, inbox>>
    ELSE LET chatMessage == ChatMessage(cid, message, rnd)
         IN /\ messageHistory' = Push(messageHistory, chatMessage)
            /\ inbox' = Broadcast(clients, readyState, inbox, broken, MessageEnvelope(chatMessage), cid)
            /\ UNCHANGED clients

\* function handleChatMessage(clientId, message)
HandleChatMessage(cid, message, rnd) ==
  IF ~MapHas(clients, cid)
    THEN UNCHANGED <<clients, messageHistory, inbox>>
    ELSE LET chatMessage == ChatMessage(cid, message, rnd)
         IN /\ messageHistory' = Push(messageHistory, chatMessage)
            /\ inbox' = Broadcast(clients, readyState, inbox, broken, MessageEnvelope(chatMessage), Null)
            /\ UNCHANGED clients

\* --------------------------------------------------------------- rename
\* client.username = newUsername on the entry of cid.
Rename(cl, cid, newUsername) ==
  [cl EXCEPT ![MapIndex(cl, cid)] = [@ EXCEPT !.username = newUsername]]

\* A rename handler that leaves the sender out of the broadcast.
HandleUsernameChangeExcludingSender(cid, newUsername) ==
  IF ~MapHas(clients, cid)
    THEN UNCHANGED <<clients, messageHistory, inbox>>
    ELSE LET oldUsername == MapGet(clients, cid).username
         IN /\ clients' = Rename(clients, cid, newUsername)
            /\ inbox' = Broadcast(clients', readyState, inbox, broken,
                                  [type |-> "usernameChanged",
                                   oldUsername |-> oldUsername,
                                   newUsername |-> newUsername],
                                  cid)
            /\ UNCHANGED messageHistory

\* function handleUsernameChange(clientId, newUsername)
HandleUsernameChange(cid, newUsername) ==
  IF ~MapHas(clients, cid)
    THEN UNCHANGED <<clients, messageHistory, inbox>>
    ELSE LET oldUsername == MapGet(clients, cid).username
         IN /\ clients' = Rename(clients, cid, newUsername)
            /\ inbox' = Broadcast(clients', readyState, inbox, broken,
                                  [type |-> "usernameChanged",
                                   oldUsername |-> oldUsername,
                                   newUsername |-> newUsername],
                                  Null)
            /\ UNCHANGED messageHistory

\* ---------------------------------------------------------- socket events
\* A message handler that answers what it cannot dispatch with an error envelope.
OnMessageRejecting(ws, data, rnd) ==
  /\ readyState[ws] = "OPEN"
  /\ handled + faults < MaxEvents
  /\ IF data.parses /\ data.type = "chat"
       THEN HandleChatMessage(clientId[ws], data, rnd)
       ELSE IF data.parses /\ data.type = "username"
         THEN HandleUsernameChange(clientId[ws], data.username)
         ELSE /\ inbox' = Send(inbox, broken, ws, [type |-> "error"])
              /\ UNCHANGED <<clients, messageHistory>>
  /\ handled' = handled + 1
  /\ ev' = Event("message", ws, clientId[ws], data, rnd)
  /\ renamed' = IF data.parses /\ data.type = "username"
                  THEN [renamed EXCEPT ![ws] = data.username]
                  ELSE renamed
  /\ UNCHANGED <<readyState, clientId, broken, faults>>

\* ws.on('message'): JSON.parse inside try/catch, then the switch on message.type.
OnMessage(ws, data, rnd) ==
  /\ readyState[ws] = "OPEN"
  /\ handled + faults < MaxEvents
  /\ IF data.parses /\ data.type = "chat"
       THEN HandleChatMessage(clientId[ws], data, rnd)
       ELSE IF data.parses /\ data.type = "username"
         THEN HandleUsernameChange(clientId[ws], data.username)
         ELSE UNCHANGED <<clients, messageHistory, inbox>>
  /\ handled' = handled + 1
  /\ ev' = Event("message", ws, clientId[ws], data, rnd)
  /\ renamed' = IF data.parses /\ data.type = "username"
                  THEN [renamed EXCEPT ![ws] = data.username]
                  ELSE renamed
  /\ UNCHANGED <<readyState, clientId, broken, faults>>

\* clients.get(clientId)?.username || 'Unknown'
UsernameOrUnknown(cl, cid) ==
  LET username == IF MapHas(cl, cid) THEN MapGet(cl, cid).username ELSE Undefined
  IN IF username \in {Undefined, ""} THEN "Unknown" ELSE username

\* A close handler that also drops the History Entries of the closed connection.
OnClosePurging(ws) ==
  /\ readyState[ws] \in {"OPEN", "CLOSING"}
  /\ readyState' = [readyState EXCEPT ![ws] = "CLOSED"]
  /\ clients' = MapDelete(clients, clientId[ws])
  /\ broken' = broken \ {ws}
  /\ messageHistory' = SelectSeq(messageHistory, LAMBDA m : m.clientId # clientId[ws])
  /\ inbox' = Broadcast(clients', readyState', inbox, broken',
                        [type |-> "userLeft", username |-> UsernameOrUnknown(clients', clientId[ws])],
                        clientId[ws])
  /\ ev' = Event("close", ws, clientId[ws], Garbage, Unset)
  /\ UNCHANGED <<clientId, handled, faults, renamed>>

\* ws.on('close'): the transport is closed; delete, then announce the departure.
OnClose(ws) ==
  /\ readyState[ws] \in {"OPEN", "CLOSING"}
  /\ readyState' = [readyState EXCEPT ![ws] = "CLOSED"]
  /\ clients' = MapDelete(clients, clientId[ws])
  /\ broken' = broken \ {ws}
  /\ inbox' = Broadcast(clients', readyState', inbox, broken',
                        [type |-> "userLeft", username |-> UsernameOrUnknown(clients', clientId[ws])],
                        clientId[ws])
  /\ ev' = Event("close", ws, clientId[ws], Garbage, Unset)
  /\ UNCHANGED <<messageHistory, clientId, handled, faults, renamed>>

\* An error handler that also removes the entry.
OnErrorRemoving(ws) ==
  /\ readyState[ws] = "OPEN"
  /\ handled + faults < MaxEvents
  /\ readyState' = [readyState EXCEPT ![ws] = "CLOSING"]
  /\ broken' = broken \ {ws}
  /\ faults' = faults + 1
  /\ clients' = MapDelete(clients, clientId[ws])
  /\ ev' = Event("error", ws, clientId[ws], Garbage, Unset)
  /\ UNCHANGED <<messageHistory, clientId, inbox, handled, renamed>>

\* ws.on('error'): logged. The ws library has moved the socket to CLOSING and
\* emits 'close' afterwards.
OnError(ws) ==
  /\ readyState[ws] = "OPEN"
  /\ handled + faults < MaxEvents
  /\ readyState' = [readyState EXCEPT ![ws] = "CLOSING"]
  /\ broken' = broken \ {ws}
  /\ faults' = faults + 1
  /\ ev' = Event("error", ws, clientId[ws], Garbage, Unset)
  /\ UNCHANGED <<clients, messageHistory, clientId, inbox, handled, renamed>>

\* The peer's close frame arrives: the socket is CLOSING until its 'close'
\* event; no handler of the server runs.
CloseFrame(ws) ==
  /\ readyState[ws] = "OPEN"
  /\ handled + faults < MaxEvents
  /\ readyState' = [readyState EXCEPT ![ws] = "CLOSING"]
  /\ broken' = broken \ {ws}
  /\ faults' = faults + 1
  /\ ev' = Event("closeFrame", ws, clientId[ws], Garbage, Unset)
  /\ UNCHANGED <<clients, messageHistory, clientId, inbox, handled, renamed>>

\* The peer of an open socket vanishes: the socket stays OPEN for the server
\* until the transport reports it, and what is sent meanwhile is lost.
LinkDown(ws) ==
  /\ readyState[ws] = "OPEN"
  /\ ws \notin broken
  /\ handled + faults < MaxEvents
  /\ broken' = broken \cup {ws}
  /\ faults' = faults + 1
  /\ ev' = Event("linkDown", ws, clientId[ws], Garbage, Unset)
  /\ UNCHANGED <<clients, messageHistory, readyState, clientId, inbox, handled, renamed>>

\* ------------------------------------------------------------ roster query
\* A users array that reports every entry under its default name.
UsersByDefaultName(cl) ==
  [i \in 1..Len(cl) |-> [id |-> cl[i].id, username |-> DefaultUsername(cl[i].id)]]

\* Array.from(clients.values()).map(client => ({id, username}))
Users(cl) == [i \in 1..Len(cl) |-> [id |-> cl[i].id, username |-> cl[i].username]]

\* res.json(users): JSON.stringify of the array, element by element.
Json(users) == [i \in 1..Len(users) |-> StringifyFlat(users[i])]

\* app.get('/api/users'): the handler reads the Map and answers; response is
\* the body the caller receives.
GetUsers ==
  /\ ev' = Event("users", 0, Unset, Garbage, Unset) @@ [response |-> Json(Users(clients))]
  /\ UNCHANGED <<clients, messageHistory, readyState, clientId, broken, inbox, handled, faults, renamed>>

\* ============================================================ browser side
\* A handle that holds no WebSocket: wsRef.current = null, this.ws = null.
NoSocket == 0

\* No client has been started: the state of the browser side in the
\* specifications of the server alone.
NoClient ==
  /\ webSocket = <<>>
  /\ app = [wsRef |-> NoSocket, isConnected |-> FALSE, mounted |-> FALSE]
  /\ timers = 0
  /\ chatService = [ws |-> NoSocket, clientId |-> Null]
  /\ dispatched = <<>>
  /\ outbox = <<>>
  /\ notified = <<>>
  /\ connectionNotified = <<>>
  /\ calls = <<>>

\* WebSocket.prototype.close(): a socket that is connecting or open starts
\* closing; on a closing or closed socket the call does nothing.
Close(sockets, s) ==
  IF sockets[s] \in {"CONNECTING", "OPEN"} THEN [sockets EXCEPT ![s] = "CLOSING"] ELSE sockets

\* ------------------------------------------- simple chat client (App.js)
\* The WebSocket objects the simple chat client can construct in one run.
AppSockets == 1..(MaxReconnects + 1)

\* The WebSocket objects constructed so far.
Constructed == {s \in DOMAIN webSocket : webSocket[s] # "NONE"}

\* connectWebSocket(): new WebSocket(...), wsRef.current = ws, handlers set.
ConnectWebSocket ==
  LET ws == Cardinality(Constructed) + 1
  IN /\ ws \in DOMAIN webSocket
     /\ webSocket' = [webSocket EXCEPT ![ws] = "CONNECTING"]
     /\ app' = [app EXCEPT !.wsRef = ws]

\* ws.onopen
AppOnOpen(ws) ==
  /\ webSocket[ws] = "CONNECTING"
  /\ webSocket' = [webSocket EXCEPT ![ws] = "OPEN"]
  /\ app' = [app EXCEPT !.isConnected = TRUE]
  /\ UNCHANGED <<timers, outbox, serverVars, serviceVars>>

\* An onclose handler that gives up: no setTimeout.
AppOnCloseGivingUp(ws) ==
  /\ webSocket[ws] \in {"CONNECTING", "OPEN", "CLOSING"}
  /\ ws <= MaxReconnects
  /\ webSocket' = [webSocket EXCEPT ![ws] = "CLOSED"]
  /\ app' = [app EXCEPT !.isConnected = FALSE]
  /\ UNCHANGED <<timers, outbox, serverVars, serviceVars>>

\* ws.onclose: the connection failed, was lost, or finished closing;
\* setIsConnected(false) and setTimeout(connectWebSocket, 3000).
AppOnClose(ws) ==
  /\ webSocket[ws] \in {"CONNECTING", "OPEN", "CLOSING"}
  /\ ws <= MaxReconnects
  /\ webSocket' = [webSocket EXCEPT ![ws] = "CLOSED"]
  /\ app' = [app EXCEPT !.isConnected = FALSE]
  /\ timers' = timers + 1
  /\ UNCHANGED <<outbox, serverVars, serviceVars>>

\* The 3 seconds of a pending timer are over: connectWebSocket runs.
TimerFires ==
  /\ timers > 0
  /\ timers' = timers - 1
  /\ ConnectWebSocket
  /\ UNCHANGED <<outbox, serverVars, serviceVars>>

\* WebSocket.prototype.send(data) on socket s: an open socket queues the
\* data for the server; a closing or closed socket discards it.
Write(queues, sockets, s, data) ==
  IF sockets[s] = "OPEN" THEN [queues EXCEPT ![s] = Append(@, data)] ELSE queues

\* sendMessage() of App.js: a non-blank input is sent over wsRef.current
\* when isConnected is set; nothing is shown until the server echoes it.
AppSendMessage(text) ==
  /\ app.mounted
  /\ app.wsRef # NoSocket /\ app.isConnected
  /\ Len(outbox[app.wsRef]) < MaxEvents
  /\ outbox' = Write(outbox, webSocket, app.wsRef, Payload(TRUE, "chat", text, Undefined))
  /\ UNCHANGED <<webSocket, app, timers, serverVars, serviceVars>>

\* The cleanup the effect returned (the component unmounts):
\* if (wsRef.current) wsRef.current.close().
Cleanup ==
  /\ app.mounted
  /\ app' = [app EXCEPT !.mounted = FALSE]
  /\ webSocket' = IF app.wsRef # NoSocket THEN Close(webSocket, app.wsRef) ELSE webSocket
  /\ UNCHANGED <<timers, outbox, serverVars, serviceVars>>

\* ------------------------- ChatService (frontend/src/types/chat.ts)
\* What the user types into the ChatService client; each call of sendMessage
\* is given a content of its own, so that an envelope can be told to be the
\* echo of a call.  The other peers send Texts.
Contents == {"yo", "ok"}

\* Date.now().toString(): the clock is not modelled.
Now == "<now>"

\* JavaScript truthiness of a string property: absent and empty are falsy.
Truthy(v) == v \notin {Undefined, Null, ""}

\* a || b on string properties.
Or(a, b) == IF Truthy(a) THEN a ELSE b

\* The sockets no side has used yet.
Unused == {s \in DOMAIN webSocket : webSocket[s] = "NONE" /\ readyState[s] = "NONE"}

\* connect(customerId): this.ws = new WebSocket(...), the handlers are set.
\* The new socket is the next one the server will accept.
Connect ==
  /\ Unused # {}
  /\ LET ws == CHOOSE s \in Unused : \A u \in Unused : s <= u
     IN /\ webSocket' = [webSocket EXCEPT ![ws] = "CONNECTING"]
        /\ chatService' = [chatService EXCEPT !.ws = ws]
  /\ UNCHANGED <<dispatched, outbox, notified, connectionNotified, calls>>

\* this.ws.onopen, on the socket ws that connect() constructed: the server
\* has accepted the connection; notifyConnectionChange(true).
ServiceOnOpen(ws) ==
  /\ webSocket[ws] = "CONNECTING"
  /\ readyState[ws] # "NONE"
  /\ webSocket' = [webSocket EXCEPT ![ws] = "OPEN"]
  /\ connectionNotified' = Append(connectionNotified, TRUE)
  /\ UNCHANGED <<chatService, dispatched, outbox, notified, calls>>

\* The Message the `message` case builds from an envelope.
Mapped(data) ==
  [id |-> Field(data, "id"), sender |-> "customer",
   content |-> Or(Field(data, "text"), Or(Field(data, "content"), ""))]

\* The system Message of the `userLeft` and `usernameChanged` cases.
Sys(content) == [id |-> Now, sender |-> "customer", content |-> content]

\* Template literals print an absent property as "undefined".
Shown(v) == IF v = Undefined THEN "undefined" ELSE v

\* case 'message': an envelope with the client's own clientId is dropped,
\* any other is mapped and handed to the listeners.
OnMessageCaseMessage(data) ==
  IF Truthy(Field(data, "clientId")) /\ data.clientId = chatService.clientId
    THEN UNCHANGED <<notified, chatService>>
    ELSE /\ notified' = Append(notified, Mapped(data))
         /\ UNCHANGED chatService

\* this.ws.onmessage, on socket ws: the next envelope the socket received is
\* parsed and handled by the switch on data.type.  A browser dispatches
\* message events on an open socket only.
ServiceOnMessage(ws) ==
  /\ webSocket[ws] = "OPEN"
  /\ dispatched[ws] < Len(inbox[ws])
  /\ dispatched' = [dispatched EXCEPT ![ws] = @ + 1]
  /\ LET data == inbox[ws][dispatched[ws] + 1]
     IN CASE data.type = "connection" ->
               /\ chatService' = [chatService EXCEPT !.clientId = Or(Field(data, "clientId"), Null)]
               /\ UNCHANGED notified
          [] data.type = "message" -> OnMessageCaseMessage(data)
          [] data.type = "userLeft" ->
               /\ notified' = Append(notified, Sys(Shown(Field(data, "username")) \o " left the chat"))
               /\ UNCHANGED chatService
          [] data.type = "usernameChanged" ->
               /\ notified' = Append(notified,
                                     Sys(Shown(Field(data, "oldUsername")) \o " changed their name to "
                                           \o Shown(Field(data, "newUsername"))))
               /\ UNCHANGED chatService
          [] OTHER -> UNCHANGED <<notified, chatService>>
  /\ UNCHANGED <<webSocket, outbox, connectionNotified, calls>>

\* this.ws.onclose, on socket ws (the connection failed, was lost, or
\* finished closing): this.ws = null; notifyConnectionChange(false).
ServiceOnClose(ws) ==
  /\ webSocket[ws] \in {"CONNECTING", "OPEN", "CLOSING"}
  /\ webSocket' = [webSocket EXCEPT ![ws] = "CLOSED"]
  /\ chatService' = [chatService EXCEPT !.ws = NoSocket]
  /\ connectionNotified' = Append(connectionNotified, FALSE)
  /\ UNCHANGED <<dispatched, outbox, notified, calls>>

\* disconnect(), called while the service holds a socket: this.ws.close(),
\* this.ws = null, notifyConnectionChange(false).
Disconnect ==
  /\ chatService.ws # NoSocket
  /\ webSocket' = Close(webSocket, chatService.ws)
  /\ chatService' = [chatService EXCEPT !.ws = NoSocket]
  /\ connectionNotified' = Append(connectionNotified, FALSE)
  /\ UNCHANGED <<dispatched, outbox, notified, calls>>

\* The condition under which sendMessage writes its payload.
CanWrite == chatService.ws # NoSocket /\ webSocket[chatService.ws] = "OPEN"

\* sendMessage rejecting when there is no open socket: nothing is echoed
\* and the promise does not resolve.
SendMessageRejecting(content) ==
  /\ \A i \in 1..Len(calls) : calls[i].content # content
  /\ notified' = IF CanWrite
                   THEN Append(notified, [id |-> Now, sender |-> "owner", content |-> content,
                                          clientId |-> chatService.clientId])
                   ELSE notified
  /\ outbox' = IF CanWrite
                 THEN Write(outbox, webSocket, chatService.ws, Payload(TRUE, "chat", content, Undefined))
                 ELSE outbox
  /\ calls' = Append(calls, [content |-> content, written |-> CanWrite, resolved |-> CanWrite])
  /\ UNCHANGED <<webSocket, chatService, dispatched, connectionNotified>>

\* sendMessage(content): the optimistic local echo, then the payload is
\* written if this.ws is an open socket; the promise resolves either way.
SendMessage(content) ==
  /\ \A i \in 1..Len(calls) : calls[i].content # content
  /\ notified' = Append(notified, [id |-> Now, sender |-> "owner", content |-> content,
                                   clientId |-> chatService.clientId])
  /\ outbox' = IF CanWrite
                 THEN Write(outbox, webSocket, chatService.ws, Payload(TRUE, "chat", content, Undefined))
                 ELSE outbox
  /\ calls' = Append(calls, [content |-> content, written |-> CanWrite, resolved |-> TRUE])
  /\ UNCHANGED <<webSocket, chatService, dispatched, connectionNotified>>

\* ------------------------------------------------------- specifications
\* The state after the module has loaded: empty Map, empty array.
Init ==
  /\ clients = <<>>
  /\ messageHistory = <<>>
  /\ readyState = [ws \in Sockets |-> "NONE"]
  /\ clientId = [ws \in Sockets |-> Unset]
  /\ inbox = [ws \in Sockets |-> <<>>]
  /\ broken = {}
  /\ handled = 0
  /\ faults = 0
  /\ renamed = [ws \in Sockets |-> Unset]
  /\ ev = Event("start", 0, Unset, Garbage, Unset)
  /\ NoClient

Next ==
  \/ \E ws \in Sockets, rnd \in ClientIdPool : OnConnection(ws, rnd)
       /\ UNCHANGED clientVars
  \/ \E ws \in Sockets, data \in ChatPayloads, rnd \in MsgIdPool : OnMessage(ws, data, rnd)
       /\ UNCHANGED clientVars
  \/ \E ws \in Sockets, data \in Payloads \ ChatPayloads : OnMessage(ws, data, Unset)
       /\ UNCHANGED clientVars
  \/ \E ws \in Sockets : OnClose(ws)
       /\ UNCHANGED clientVars
  \/ \E ws \in Sockets : OnError(ws)
       /\ UNCHANGED clientVars
  \/ \E ws \in Sockets : CloseFrame(ws)
       /\ UNCHANGED clientVars
  \/ \E ws \in Sockets : LinkDown(ws)
       /\ UNCHANGED clientVars

Spec == Init /\ [][Next]_vars

\* The relay together with its HTTP side channel: every handler of the
\* server, and the query.
NextApi ==
  \/ \E ws \in Sockets, rnd \in ClientIdPool : OnConnection(ws, rnd)
       /\ UNCHANGED clientVars
  \/ \E ws \in Sockets, t \in Texts, rnd \in MsgIdPool :
       OnMessage(ws, Payload(TRUE, "chat", t, Undefined), rnd)
       /\ UNCHANGED clientVars
  \/ \E ws \in Sockets, data \in UsernamePayloads : OnMessage(ws, data, Unset)
       /\ UNCHANGED clientVars
  \/ \E ws \in Sockets, data \in {Garbage, Bogus} : OnMessage(ws, data, Unset)
       /\ UNCHANGED clientVars
  \/ \E ws \in Sockets : OnError(ws)
       /\ UNCHANGED clientVars
  \/ \E ws \in Sockets : OnClose(ws)
       /\ UNCHANGED clientVars
  \/ GetUsers
       /\ UNCHANGED clientVars

SpecApi == Init /\ [][NextApi]_vars

\* A server that has been running: the History Buffer already holds the chat
\* messages of connections that have since closed, WarmGap short of its limit.
WarmEntry(i) ==
  [id |-> "w" \o ToString(i), username |-> "Userold0", text |-> "old", clientId |-> "old0zzzzz"]
WarmHistory(n) == [i \in 1..n |-> WarmEntry(i)]

InitWarm ==
  /\ clients = <<>>
  /\ messageHistory = WarmHistory(HistoryLimit - WarmGap)
  /\ readyState = [ws \in Sockets |-> "NONE"]
  /\ clientId = [ws \in Sockets |-> Unset]
  /\ inbox = [ws \in Sockets |-> <<>>]
  /\ broken = {}
  /\ handled = 0
  /\ faults = 0
  /\ renamed = [ws \in Sockets |-> Unset]
  /\ ev = Event("start", 0, Unset, Garbage, Unset)
  /\ NoClient

\* The events that reach the History Buffer or the Registry, over healthy
\* transports: accept, chat, rename, a message of unknown type, close.
NextWarm ==
  \/ \E ws \in Sockets, rnd \in ClientIdPool : OnConnection(ws, rnd)
       /\ UNCHANGED clientVars
  \/ \E ws \in Sockets, t \in Texts, rnd \in MsgIdPool :
       OnMessage(ws, Payload(TRUE, "chat", t, Undefined), rnd)
       /\ UNCHANGED clientVars
  \/ \E ws \in Sockets, n \in Names :
       OnMessage(ws, Payload(TRUE, "username", Undefined, n), Unset)
       /\ UNCHANGED clientVars
  \/ \E ws \in Sockets : OnMessage(ws, Bogus, Unset)
       /\ UNCHANGED clientVars
  \/ \E ws \in Sockets : OnClose(ws)
       /\ UNCHANGED clientVars

SpecWarm == InitWarm /\ [][NextWarm]_vars

\* A busier server: one socket more than Sockets, and only the events that
\* add and remove Registry entries (accept, error, close).
Crowd == 1..(MaxConns + 1)

InitCrowd ==
  /\ clients = <<>>
  /\ messageHistory = <<>>
  /\ readyState = [ws \in Crowd |-> "NONE"]
  /\ clientId = [ws \in Crowd |-> Unset]
  /\ inbox = [ws \in Crowd |-> <<>>]
  /\ broken = {}
  /\ handled = 0
  /\ faults = 0
  /\ renamed = [ws \in Crowd |-> Unset]
  /\ ev = Event("start", 0, Unset, Garbage, Unset)
  /\ NoClient

NextCrowd ==
  \/ \E ws \in Crowd, rnd \in ClientIdPool : OnConnection(ws, rnd)
       /\ UNCHANGED clientVars
  \/ \E ws \in Crowd : OnError(ws)
       /\ UNCHANGED clientVars
  \/ \E ws \in Crowd : OnClose(ws)
       /\ UNCHANGED clientVars

SpecCrowd == InitCrowd /\ [][NextCrowd]_vars

\* The simple chat client after its first render: the effect has run
\* connectWebSocket() once.  The server is left out (a connection attempt
\* either opens or closes).
InitApp ==
  /\ clients = <<>>
  /\ messageHistory = <<>>
  /\ readyState = <<>>
  /\ clientId = <<>>
  /\ inbox = <<>>
  /\ broken = {}
  /\ handled = 0
  /\ faults = 0
  /\ renamed = <<>>
  /\ ev = Event("start", 0, Unset, Garbage, Unset)
  /\ webSocket = [ws \in AppSockets |-> IF ws = 1 THEN "CONNECTING" ELSE "NONE"]
  /\ app = [wsRef |-> 1, isConnected |-> FALSE, mounted |-> TRUE]
  /\ timers = 0
  /\ chatService = [ws |-> NoSocket, clientId |-> Null]
  /\ dispatched = <<>>
  /\ outbox = [ws \in AppSockets |-> <<>>]
  /\ notified = <<>>
  /\ connectionNotified = <<>>
  /\ calls = <<>>

NextApp ==
  \/ \E ws \in AppSockets : AppOnOpen(ws)
  \/ \E ws \in AppSockets : AppOnClose(ws)
  \/ TimerFires
  \/ \E text \in Texts : AppSendMessage(text)
  \/ Cleanup

\* A timer that is pending fires: the browser runs the callback once its
\* delay is over.
SpecApp == InitApp /\ [][NextApp]_vars /\ WF_vars(TimerFires)

\* The relay with one ChatService client among its peers: the sockets the
\* service constructs are the service's, the others belong to peers that
\* send chat messages.  Transports are healthy apart from the closes.
InitService ==
  /\ clients = <<>>
  /\ messageHistory = <<>>
  /\ readyState = [ws \in Sockets |-> "NONE"]
  /\ clientId = [ws \in Sockets |-> Unset]
  /\ inbox = [ws \in Sockets |-> <<>>]
  /\ broken = {}
  /\ handled = 0
  /\ faults = 0
  /\ renamed = [ws \in Sockets |-> Unset]
  /\ ev = Event("start", 0, Unset, Garbage, Unset)
  /\ webSocket = [ws \in Sockets |-> "NONE"]
  /\ app = [wsRef |-> NoSocket, isConnected |-> FALSE, mounted |-> FALSE]
  /\ timers = 0
  /\ chatService = [ws |-> NoSocket, clientId |-> Null]
  /\ dispatched = [ws \in Sockets |-> 0]
  /\ outbox = [ws \in Sockets |-> <<>>]
  /\ notified = <<>>
  /\ connectionNotified = <<>>
  /\ calls = <<>>

NextService ==
  \/ \E ws \in Sockets, rnd \in ClientIdPool : OnConnection(ws, rnd)
       /\ UNCHANGED clientVars
  \/ \E ws \in Sockets, t \in Texts, rnd \in MsgIdPool :
       /\ webSocket[ws] = "NONE"
       /\ OnMessage(ws, Payload(TRUE, "chat", t, Undefined), rnd)
       /\ UNCHANGED clientVars
  \/ \E ws \in Sockets, rnd \in MsgIdPool :
       /\ outbox[ws] # <<>>
       /\ OnMessage(ws, Head(outbox[ws]), rnd)
       /\ outbox' = [outbox EXCEPT ![ws] = Tail(@)]
       /\ UNCHANGED <<webSocket, app, timers, serviceVars>>
  \/ \E ws \in Sockets : OnClose(ws)
       /\ UNCHANGED clientVars
  \/ Connect /\ UNCHANGED <<serverVars, app, timers>>
  \/ \E ws \in Sockets : ServiceOnOpen(ws) /\ UNCHANGED <<serverVars, app, timers>>
  \/ \E ws \in Sockets : ServiceOnMessage(ws) /\ UNCHANGED <<serverVars, app, timers>>
  \/ \E ws \in Sockets : ServiceOnClose(ws) /\ UNCHANGED <<serverVars, app, timers>>
  \/ Disconnect /\ UNCHANGED <<serverVars, app, timers>>
  \/ \E content \in Contents : SendMessage(content) /\ UNCHANGED <<serverVars, app, timers>>

SpecService == InitService /\ [][NextService]_vars

\* The ChatService opening and closing connections and sending, with the
\* server accepting its sockets.
NextSend ==
  \/ \E ws \in Sockets, rnd \in ClientIdPool : OnConnection(ws, rnd)
       /\ UNCHANGED clientVars
  \/ Connect /\ UNCHANGED <<serverVars, app, timers>>
  \/ \E ws \in Sockets : ServiceOnOpen(ws) /\ UNCHANGED <<serverVars, app, timers>>
  \/ \E ws \in Sockets : ServiceOnClose(ws) /\ UNCHANGED <<serverVars, app, timers>>
  \/ Disconnect /\ UNCHANGED <<serverVars, app, timers>>
  \/ \E content \in Contents : SendMessage(content) /\ UNCHANGED <<serverVars, app, timers>>

SpecSend == InitService /\ [][NextSend]_vars

\* ================================================================ claims
\* The step handles a chat message whose sender's identity is in the Registry.
ChatHandled ==
  /\ ev'.type = "message"
  /\ ev'.data.parses
  /\ ev'.data.type = "chat"
  /\ MapHas(clients, ev'.clientId)

\* The History Entry such a step creates, read off the event and the Registry.
EntryOfStep ==
  [id |-> ev'.rnd,
   username |-> MapGet(clients, ev'.clientId).username,
   text |-> ev'.data.text,
   clientId |-> ev'.clientId]

EntryFields == {"id", "username", "text", "clientId"}

\* The sockets that have an entry of the Registry cl.
RegisteredSockets(cl) == {cl[i].ws : i \in 1..Len(cl)}

\* Socket ws is registered: the entry under its identity is its own.
Registered(cl, ws) == MapHas(cl, clientId[ws]) /\ MapGet(cl, clientId[ws]).ws = ws

Last(seq) == seq[Len(seq)]

\* C1 History bound: in every reachable state the History Buffer holds at
\* most 100 entries.
HistoryBound == Len(messageHistory) <= HistoryLimit

\* A chat message has been handled with the buffer full: the oldest entry of
\* the initial buffer is gone.
HistoryBoundWitness ==
  /\ ev.type = "message" /\ ev.data.type = "chat"
  /\ Len(messageHistory) = HistoryLimit
  /\ messageHistory[1] # WarmEntry(1)
  /\ messageHistory[HistoryLimit].id = ev.rnd

\* C2 FIFO eviction: a handled chat message appends its entry, after dropping
\* the oldest entry when the buffer already holds 100; in every step the
\* entries that stay are a suffix of the old buffer, in the same order.
HistoryFifo ==
  [][/\ ChatHandled =>
          IF Len(messageHistory) >= HistoryLimit
            THEN messageHistory' = Tail(messageHistory) \o <<EntryOfStep>>
            ELSE messageHistory' = messageHistory \o <<EntryOfStep>>
     /\ \E k \in 0..1 :
          /\ k <= Len(messageHistory)
          /\ Len(messageHistory') >= Len(messageHistory) - k
          /\ SubSeq(messageHistory', 1, Len(messageHistory) - k)
               = SubSeq(messageHistory, k + 1, Len(messageHistory))]_vars

\* The buffer was full, a chat message came, and the second-oldest entry of
\* the initial buffer is now the oldest.
HistoryFifoWitness ==
  /\ ev.type = "message" /\ ev.data.type = "chat"
  /\ Len(messageHistory) = HistoryLimit
  /\ messageHistory[1] = WarmEntry(2)
  /\ messageHistory[HistoryLimit - 1].clientId \in ClientIdPool
  /\ messageHistory[HistoryLimit].clientId = ev.clientId

\* C3 Replay fidelity: the connection envelope delivered to an accepted socket
\* carries, entry by entry and field by field, the History Buffer as it was
\* when the connection was accepted.
ReplayFidelity ==
  [][ev'.type = "connection" =>
       /\ Len(inbox'[ev'.ws]) = Len(inbox[ev'.ws]) + 1
       /\ LET envelope == Last(inbox'[ev'.ws])
          IN /\ envelope.type = "connection"
             /\ Len(envelope.messageHistory) = Len(messageHistory)
             /\ \A i \in 1..Len(messageHistory) : \A f \in EntryFields :
                  Field(envelope.messageHistory[i], f) = messageHistory[i][f]]_vars

\* A connection was accepted after chat messages had been handled, one of
\* them without a text.
ReplayFidelityWitness ==
  /\ ev.type = "connection"
  /\ Len(messageHistory) = 2
  /\ messageHistory[1].text = Undefined
  /\ messageHistory[2].text \in Texts
  /\ Len(Last(inbox[ev.ws]).messageHistory) = 2

\* Socket c received exactly one more envelope in the step.
ReceivedOne(c) ==
  /\ Len(inbox'[c]) = Len(inbox[c]) + 1
  /\ SubSeq(inbox'[c], 1, Len(inbox[c])) = inbox[c]

\* Socket c's transport is usable: open for the server, and the link is up.
Healthy(c) == readyState[c] = "OPEN" /\ c \notin broken

\* The envelope socket c received last is the `message` envelope of the
\* History Entry the step created.
GotMessageOfStep(c) ==
  /\ ReceivedOne(c)
  /\ Last(inbox'[c]).type = "message"
  /\ Field(Last(inbox'[c]), "id") = Last(messageHistory').id
  /\ Field(Last(inbox'[c]), "text") = Last(messageHistory').text

\* C4 (as stated) Broadcast inclusivity: a chat message from a registered
\* connection reaches every connection in the Registry, the sender included,
\* as exactly one `message` envelope with the entry's text and id (a
\* connection whose transport link is lost aside: nothing can reach it).
BroadcastInclusivityAll ==
  [][ChatHandled /\ Registered(clients, ev'.ws) =>
       \A c \in RegisteredSockets(clients) \ broken : GotMessageOfStep(c)]_vars

\* C4 (amended) the same for every connection in the Registry whose socket is
\* OPEN and whose transport link is up, the sender included.
BroadcastInclusivity ==
  [][ChatHandled /\ Registered(clients, ev'.ws) =>
       \A c \in RegisteredSockets(clients) : Healthy(c) => GotMessageOfStep(c)]_vars

\* A chat message was handled with two healthy registered connections, and
\* both, the sender too, hold its envelope.
BroadcastInclusivityWitness ==
  /\ ev.type = "message" /\ ev.data.type = "chat"
  /\ Registered(clients, ev.ws)
  /\ \E c \in RegisteredSockets(clients) \ {ev.ws} :
       /\ Healthy(c) /\ Healthy(ev.ws)
       /\ Last(inbox[c]).type = "message"
       /\ Last(inbox[ev.ws]) = Last(inbox[c])
       /\ Field(Last(inbox[c]), "id") = ev.rnd

\* C5 Departure isolation, for the recipients with a usable transport: when a
\* registered connection closes, every other registered connection receives
\* exactly one `userLeft` envelope naming the display name the closed
\* connection had, and the closed connection receives nothing.
DepartureIsolation ==
  [][ev'.type = "close" /\ Registered(clients, ev'.ws) =>
       /\ inbox'[ev'.ws] = inbox[ev'.ws]
       /\ \A c \in RegisteredSockets(clients') :
            Healthy(c) =>
              /\ ReceivedOne(c)
              /\ Last(inbox'[c]).type = "userLeft"
              /\ Last(inbox'[c]).username = MapGet(clients, ev'.clientId).username]_vars

\* C6 Rename visibility with snapshot semantics: a chat message of a
\* connection that has renamed carries the name of its last rename, and a
\* rename leaves the History Buffer as it was.
RenameVisibility ==
  [][/\ ChatHandled /\ renamed[ev'.ws] # Unset =>
          Last(messageHistory').username = renamed[ev'.ws]
     /\ ev'.type = "message" /\ ev'.data.parses /\ ev'.data.type = "username" =>
          messageHistory' = messageHistory]_vars

\* The step handles a message that does not parse or has an unknown type.
UnknownHandled ==
  /\ ev'.type = "message"
  /\ ~ev'.data.parses \/ ev'.data.type \notin {"chat", "username"}

\* C7 Unknown-type and unparseable-input resilience: such a message sends no
\* envelope to anyone, leaves the Registry and the History Buffer unchanged
\* and keeps the sender registered and open.
UnknownIgnored ==
  [][UnknownHandled =>
       /\ inbox' = inbox
       /\ clients' = clients
       /\ messageHistory' = messageHistory
       /\ readyState'[ev'.ws] = "OPEN"
       /\ Registered(clients, ev'.ws) => Registered(clients', ev'.ws)]_vars

\* A registered connection sent {type: "bogus"} while another was registered.
UnknownIgnoredWitness ==
  /\ ev.type = "message" /\ ev.data = Bogus
  /\ Registered(clients, ev.ws)
  /\ Len(clients) = 2
  /\ readyState[ev.ws] = "OPEN"

\* The sockets of the connections accepted and not yet closed.
Live == {ws \in Sockets : readyState[ws] \in {"OPEN", "CLOSING"}}

\* C8 Identity uniqueness: every live connection has its own Registry entry,
\* under an identity no other live connection has.
IdentityUnique ==
  \A a \in Live :
    /\ Registered(clients, a)
    /\ \A b \in Live \ {a} : clientId[a] # clientId[b]

\* The step runs a broadcast: a chat message or rename of a known identity,
\* or a close.
BroadcastStep ==
  \/ /\ ev'.type = "message"
     /\ ev'.data.parses
     /\ ev'.data.type \in {"chat", "username"}
     /\ MapHas(clients, ev'.clientId)
  \/ ev'.type = "close"

\* The type of the envelope the step's broadcast carries.
EnvelopeTypeOfStep ==
  IF ev'.type = "close" THEN "userLeft"
  ELSE IF ev'.data.type = "chat" THEN "message" ELSE "usernameChanged"

\* The sockets the step's broadcast sends to: registered, not the one that
\* closed, OPEN.
TargetsOfStep == {c \in RegisteredSockets(clients') : readyState'[c] = "OPEN"}

\* C9 Broadcast failure isolation: when the send to some recipient fails,
\* every other recipient still receives the envelope, nobody receives
\* anything else (no error is reported), and the connection whose message
\* caused the broadcast stays open and registered.
FailureIsolation ==
  [][BroadcastStep /\ TargetsOfStep \cap broken' # {} =>
       /\ \A c \in TargetsOfStep \ broken' :
            ReceivedOne(c) /\ Last(inbox'[c]).type = EnvelopeTypeOfStep
       /\ \A c \in Sockets \ (TargetsOfStep \ broken') : inbox'[c] = inbox[c]
       /\ ev'.type = "message" =>
            /\ readyState'[ev'.ws] = "OPEN"
            /\ Registered(clients, ev'.ws) => Registered(clients', ev'.ws)]_vars

\* A chat message was broadcast while the link of a registered open socket
\* was down, and a recipient that comes later in the Map holds the envelope.
FailureIsolationWitness ==
  /\ ev.type = "message" /\ ev.data.type = "chat"
  /\ \E b \in broken, c \in RegisteredSockets(clients) \ broken :
       /\ Registered(clients, b) /\ Registered(clients, c)
       /\ readyState[b] = "OPEN"
       /\ MapIndex(clients, clientId[b]) < MapIndex(clients, clientId[c])
       /\ inbox[c] # <<>>
       /\ Last(inbox[c]).type = "message"
       /\ Field(Last(inbox[c]), "id") = ev.rnd

DisconnectIdempotent ==
  [][ev'.type = "close" /\ ~MapHas(clients, ev'.clientId) =>
       /\ clients' = clients
       /\ messageHistory' = messageHistory
       /\ inbox' = inbox]_vars

\* The step handles a rename request whose sender's identity is in the Registry.
RenameHandled ==
  /\ ev'.type = "message"
  /\ ev'.data.parses
  /\ ev'.data.type = "username"
  /\ MapHas(clients, ev'.clientId)

\* The envelope socket c received last is the `usernameChanged` envelope of
\* the step: old name as the Registry had it, new name as requested.
GotRenameOfStep(c) ==
  /\ ReceivedOne(c)
  /\ Last(inbox'[c]).type = "usernameChanged"
  /\ Field(Last(inbox'[c]), "oldUsername") = MapGet(clients, ev'.clientId).username
  /\ Field(Last(inbox'[c]), "newUsername") = ev'.data.username

\* C12 (as stated) Rename broadcast: a rename request from a registered
\* connection sets the display name of its entry, and every connection in
\* the Registry, the sender included, receives exactly one `usernameChanged`
\* envelope with the old and the new name (a connection whose transport link
\* is lost aside: nothing can reach it).
RenameBroadcastAll ==
  [][RenameHandled /\ Registered(clients, ev'.ws) =>
       /\ MapGet(clients', ev'.clientId).username = ev'.data.username
       /\ \A c \in RegisteredSockets(clients) \ broken : GotRenameOfStep(c)]_vars

\* C12 (amended) the same for every connection in the Registry whose socket
\* is OPEN and whose transport link is up, the sender included.
RenameBroadcast ==
  [][RenameHandled /\ Registered(clients, ev'.ws) =>
       /\ MapGet(clients', ev'.clientId).username = ev'.data.username
       /\ \A c \in RegisteredSockets(clients) :
            Healthy(c) => GotRenameOfStep(c)]_vars

\* A rename to Carl was handled with two healthy registered connections:
\* the entry has the new name and both hold the envelope with the default
\* name as the old one.
RenameBroadcastWitness ==
  /\ ev.type = "message" /\ ev.data.type = "username" /\ ev.data.username \in Names
  /\ Registered(clients, ev.ws)
  /\ MapGet(clients, ev.clientId).username = ev.data.username
  /\ \E c \in RegisteredSockets(clients) \ {ev.ws} :
       /\ Healthy(c) /\ Healthy(ev.ws)
       /\ Last(inbox[c]).type = "usernameChanged"
       /\ Last(inbox[c]).oldUsername = DefaultUsername(ev.clientId)
       /\ Last(inbox[c]).newUsername = ev.data.username
       /\ Last(inbox[ev.ws]) = Last(inbox[c])

\* Socket ws has been accepted: its inbox starts with the one `connection`
\* envelope it ever gets, which carries the identity of ws.
ConnectionEnvelopeLeads(ws) ==
  /\ Len(inbox[ws]) >= 1
  /\ inbox[ws][1].type = "connection"
  /\ inbox[ws][1].clientId = clientId[ws]
  /\ \A i \in 2..Len(inbox[ws]) : inbox[ws][i].type # "connection"

\* C13 Connection envelope is sent once and first: an accepted connection
\* holds exactly one `connection` envelope, ahead of everything else it
\* received and carrying its own identity; a connection not yet accepted has
\* received nothing; an accept delivers the envelope, with the display name
\* stored in the new Registry entry, to the accepted socket and nothing to
\* any other socket.
ConnectionEnvelopeOnceFirst ==
  /\ [](\A ws \in DOMAIN readyState :
          IF readyState[ws] = "NONE" THEN inbox[ws] = <<>> ELSE ConnectionEnvelopeLeads(ws))
  /\ [][ev'.type = "connection" =>
          /\ inbox'[ev'.ws] = <<Last(inbox'[ev'.ws])>>
          /\ Last(inbox'[ev'.ws]).username = MapGet(clients', clientId'[ev'.ws]).username
          /\ \A c \in DOMAIN inbox \ {ev'.ws} : inbox'[c] = inbox[c]]_vars

\* The first connection has received its connection envelope, then a
\* usernameChanged and a message envelope; the second, accepted before those,
\* holds its own connection envelope first.
ConnectionEnvelopeOnceFirstWitness ==
  /\ readyState[1] = "OPEN" /\ readyState[2] = "OPEN"
  /\ clientId[1] # clientId[2]
  /\ Len(inbox[1]) = 3 /\ Len(inbox[2]) = 3
  /\ inbox[1][1].type = "connection" /\ inbox[1][1].clientId = clientId[1]
  /\ inbox[2][1].type = "connection" /\ inbox[2][1].clientId = clientId[2]
  /\ inbox[1][2].type = "usernameChanged"
  /\ inbox[1][3].type = "message"

\* C14 Roster query is a pure snapshot: GET /api/users can be answered in
\* every state; its response lists, entry by entry, the id and the current
\* display name of each Registry entry and nothing else, under pairwise
\* different ids; and the query leaves the Registry, the History Buffer, the
\* envelopes every connection received and the sockets as they were.
RosterSnapshot ==
  /\ [](ENABLED GetUsers)
  /\ [][ev'.type = "users" =>
          /\ Len(ev'.response) = Len(clients)
          /\ \A i \in 1..Len(clients) :
               /\ ev'.response[i].id = clients[i].id
               /\ Field(ev'.response[i], "username") = clients[i].username
               /\ DOMAIN ev'.response[i] \subseteq {"id", "username"}
          /\ \A i, j \in 1..Len(clients) :
               i # j => ev'.response[i].id # ev'.response[j].id
          /\ clients' = clients
          /\ messageHistory' = messageHistory
          /\ inbox' = inbox
          /\ readyState' = readyState]_vars

\* The roster was queried with two connections registered, one of them
\* renamed to Carl, and the response names both.
RosterSnapshotWitness ==
  /\ ev.type = "users"
  /\ Len(clients) = 2
  /\ Len(ev.response) = 2
  /\ \E i, j \in 1..2 :
       /\ ev.response[i] = [id |-> clients[i].id, username |-> "Carl"]
       /\ ev.response[j] = [id |-> clients[j].id, username |-> DefaultUsername(clients[j].id)]

\* The step handles a rename request sent over socket c.
RenameRequestOf(c) ==
  /\ ev'.type = "message"
  /\ ev'.data.parses
  /\ ev'.data.type = "username"
  /\ ev'.ws = c

\* C15 Display-name ownership: the display name of the Registry entry of a
\* live connection changes only in a step that handles a rename request
\* sent by that connection; every other event leaves it as it was.
NameOwnership ==
  [][\A c \in Live :
       /\ MapHas(clients, clientId[c])
       /\ MapHas(clients', clientId[c])
       /\ MapGet(clients', clientId[c]).username # MapGet(clients, clientId[c]).username
       => RenameRequestOf(c)]_vars

\* C16 Chat entry construction: a chat message with text t from a registered
\* connection A appends exactly one History Entry (the oldest entry making
\* room when the buffer is full) whose clientId is A's identity, whose
\* username is the display name of A's entry before the step and whose text
\* is t; every envelope delivered in the step is a `message` envelope with
\* exactly the fields of that entry.
ChatEntryConstruction ==
  [][ChatHandled /\ Registered(clients, ev'.ws) =>
       LET entry == Last(messageHistory')
           kept == IF Len(messageHistory) >= HistoryLimit
                     THEN Tail(messageHistory) ELSE messageHistory
       IN /\ messageHistory' = Append(kept, entry)
          /\ entry.clientId = clientId[ev'.ws]
          /\ entry.username = MapGet(clients, clientId[ev'.ws]).username
          /\ entry.text = ev'.data.text
          /\ \A c \in DOMAIN inbox :
               inbox'[c] # inbox[c] =>
                 /\ ReceivedOne(c)
                 /\ Last(inbox'[c]).type = "message"
                 /\ DOMAIN Last(inbox'[c]) \subseteq EntryFields \cup {"type"}
                 /\ \A f \in EntryFields : Field(Last(inbox'[c]), f) = entry[f]]_vars

\* A renamed connection sent the chat message "hi": the newest History Entry
\* has its identity, the name Carl and the text, and the sender holds the
\* envelope with the same fields.
ChatEntryConstructionWitness ==
  /\ ev.type = "message" /\ ev.data.type = "chat" /\ ev.data.text \in Texts
  /\ Registered(clients, ev.ws) /\ Healthy(ev.ws)
  /\ renamed[ev.ws] \in Names
  /\ Len(messageHistory) = 1
  /\ messageHistory[1] = [id |-> ev.rnd, username |-> renamed[ev.ws],
                          text |-> ev.data.text, clientId |-> clientId[ev.ws]]
  /\ Last(inbox[ev.ws]) = MessageEnvelope(messageHistory[1])

\* The type of the envelope the step's handler sends, if it sends one.
SentTypeOfStep ==
  IF ev'.type = "connection" THEN "connection" ELSE EnvelopeTypeOfStep

\* C17 Per-recipient ordering: what a connection has received is never
\* reordered or withdrawn; a step delivers to a connection at most one
\* envelope, the one its own event produced, behind everything the
\* connection received from earlier events.  So the envelopes of a rename
\* and of a later chat message arrive in that order at every recipient.
PerRecipientOrder ==
  [][\A c \in DOMAIN inbox :
       inbox'[c] # inbox[c] =>
         /\ ev'.type = "connection" \/ BroadcastStep
         /\ ReceivedOne(c)
         /\ Last(inbox'[c]).type = SentTypeOfStep]_vars

\* A connection renamed to Carl and then sent a chat message: it and the
\* other connection hold the usernameChanged envelope and, after it, the
\* message envelope that names Carl.
PerRecipientOrderWitness ==
  /\ ev.type = "message" /\ ev.data.type = "chat"
  /\ renamed[ev.ws] \in Names
  /\ \E c \in DOMAIN inbox \ {ev.ws} :
       /\ clientId[c] # clientId[ev.ws]
       /\ \A r \in {c, ev.ws} :
            /\ Len(inbox[r]) = 3
            /\ inbox[r][2].type = "usernameChanged"
            /\ inbox[r][2].newUsername = renamed[ev.ws]
            /\ inbox[r][3].type = "message"
            /\ inbox[r][3].username = renamed[ev.ws]

\* The step handles a message of a recognized type that lacks its payload: a
\* chat message without text, a rename request without a name.
MalformedHandled ==
  /\ ev'.type = "message"
  /\ ev'.data.parses
  /\ \/ ev'.data.type = "chat" /\ ev'.data.text = Undefined
     \/ ev'.data.type = "username" /\ ev'.data.username = Undefined

\* C18 Malformed payloads of a recognized type are ignored: such a message
\* leaves the History Buffer and every Registry entry as they were and
\* causes no broadcast.
MalformedIgnored ==
  [][MalformedHandled =>
       /\ messageHistory' = messageHistory
       /\ clients' = clients
       /\ inbox' = inbox]_vars

\* The step handles a chat message or rename request whose sender's identity
\* is not in the Registry.
UnknownIdentityHandled ==
  /\ ev'.type = "message"
  /\ ev'.data.parses
  /\ ev'.data.type \in {"chat", "username"}
  /\ ~MapHas(clients, ev'.clientId)

\* C19 Unknown identity is a no-op: such a message leaves the Registry and
\* the History Buffer unchanged, sends no envelope to anyone, and its handler
\* completes with every socket in the state it was in.
UnknownIdentityNoop ==
  [][UnknownIdentityHandled =>
       /\ clients' = clients
       /\ messageHistory' = messageHistory
       /\ inbox' = inbox
       /\ readyState' = readyState
       /\ handled' = handled + 1]_vars

\* An open connection whose entry is gone (removed by the close of another
\* connection under the same identity) sent a chat message with a text, and
\* the History Buffer is still empty.
UnknownIdentityNoopWitness ==
  /\ ev.type = "message" /\ ev.data.type = "chat" /\ ev.data.text \in Texts
  /\ ~MapHas(clients, ev.clientId)
  /\ readyState[ev.ws] = "OPEN"
  /\ handled = 1
  /\ messageHistory = <<>>

\* C20 Message id uniqueness: the entries of the History Buffer have
\* pairwise different ids.
MessageIdsUnique ==
  \A i, j \in 1..Len(messageHistory) :
    i # j => messageHistory[i].id # messageHistory[j].id

\* The History Entries socket x was handed at its accept: the messageHistory
\* of its connection envelope.
ReplayedTo(x) == inbox[x][1].messageHistory

\* The History Entries socket x was handed since: its `message` envelopes, in
\* order, without the type tag.
BroadcastTo(x) ==
  LET envelopes == SelectSeq(inbox[x], LAMBDA e : e.type = "message")
  IN [i \in 1..Len(envelopes) |->
        [f \in DOMAIN envelopes[i] \ {"type"} |-> envelopes[i][f]]]

\* C22 No gap and no duplicate between replay and live broadcast: for every
\* accepted connection that is still open (with its link up), the entries
\* replayed at its accept followed by the entries broadcast to it since are,
\* up to the oldest ones the buffer has evicted, exactly the History Buffer:
\* every chat message handled reached it once, one way or the other.
NoGapNoDuplicate ==
  \A x \in DOMAIN readyState :
    readyState[x] = "OPEN" /\ x \notin broken =>
      SliceLast(ReplayedTo(x) \o BroadcastTo(x), HistoryLimit)
        = [i \in 1..Len(messageHistory) |-> StringifyFlat(messageHistory[i])]

\* C23 History Buffer frame: the History Buffer changes only in a step that
\* handles a chat message of an identity in the Registry; accept, rename,
\* close, transport error, roster query and ignored messages leave it as it
\* was.  The chat step keeps every entry, whoever its author and whether or
\* not the author is still connected, except the oldest one when the buffer
\* is full.
HistoryFrame ==
  [][IF ChatHandled
       THEN LET evicted == IF Len(messageHistory) >= HistoryLimit THEN 1 ELSE 0
            IN SubSeq(messageHistory', 1, Len(messageHistory) - evicted)
                 = SubSeq(messageHistory, 1 + evicted, Len(messageHistory))
       ELSE messageHistory' = messageHistory]_vars

\* The roster was queried after the only author of the History Buffer's
\* entry had disconnected: the entry is still there.
HistoryFrameWitness ==
  /\ ev.type = "users"
  /\ Len(messageHistory) = 1
  /\ messageHistory[1].clientId \notin MapKeys(clients)
  /\ \E x \in DOMAIN readyState :
       readyState[x] = "CLOSED" /\ clientId[x] = messageHistory[1].clientId

\* C21 Client auto-reconnection (App.js): whenever a WebSocket of the simple
\* chat client has closed while the component is mounted, the client
\* eventually constructs the next WebSocket; this holds for the first close
\* and for every later one.
AutoReconnect ==
  \A ws \in 1..MaxReconnects :
    (webSocket[ws] = "CLOSED" /\ app.mounted) ~> (webSocket[ws + 1] # "NONE")

\* Two sockets have closed one after the other while the component was
\* mounted, and the third is open.
AutoReconnectWitness ==
  /\ app.mounted
  /\ webSocket[1] = "CLOSED"
  /\ webSocket[2] = "CLOSED"
  /\ webSocket[3] = "OPEN"
  /\ app.wsRef = 3
  /\ timers = 0

\* C26 No reconnection after unmount (App.js): once the cleanup of the effect
\* has run, no reconnect timer is pending and no WebSocket is constructed.
NoReconnectAfterUnmount ==
  /\ [](~app.mounted => timers = 0)
  /\ [][~app.mounted => Constructed' = Constructed]_vars

\* The contents this ChatService has been asked to send so far.
OwnContents == {calls[i].content : i \in 1..Len(calls)}

\* The step is a call of sendMessage.
SendMessageStep == Len(calls') = Len(calls) + 1

\* The step is the ChatService's onmessage handling a `message` envelope
\* it received on socket s.
MessageDispatched(s) ==
  /\ dispatched'[s] = dispatched[s] + 1
  /\ inbox[s][dispatched'[s]].type = "message"

\* C24 Client-side echo suppression (ChatService): a call of sendMessage
\* notifies the listeners once, with the local echo; a `message` envelope
\* that is the server's echo of a message this client sent notifies nobody;
\* a `message` envelope of another client's message notifies the listeners
\* once, with its text.
EchoSuppression ==
  [][/\ SendMessageStep =>
          /\ Len(notified') = Len(notified) + 1
          /\ Last(notified').sender = "owner"
          /\ Last(notified').content = Last(calls').content
     /\ \A s \in DOMAIN dispatched :
          MessageDispatched(s) =>
            LET data == inbox[s][dispatched'[s]]
            IN IF Field(data, "text") \in OwnContents
                 THEN notified' = notified
                 ELSE /\ Len(notified') = Len(notified) + 1
                      /\ Last(notified').sender = "customer"
                      /\ Last(notified').content = Field(data, "text")]_vars

\* The newest WebSocket the ChatService constructed (NoSocket if none).
Newest ==
  IF Constructed = {} THEN NoSocket
  ELSE CHOOSE s \in Constructed : \A u \in Constructed : u <= s

\* The step is the late close event of socket s, which disconnect() closed.
CloseEventOf(s) == webSocket[s] = "CLOSING" /\ webSocket'[s] = "CLOSED"

\* C25 Stale-socket close does not clobber a newer connection (ChatService):
\* after disconnect() followed by connect(), the late close event of the
\* old socket, arriving while the new socket is open and held by this.ws,
\* leaves the handle on the new socket and does not notify the connection
\* listeners.
StaleCloseHarmless ==
  [][\A s \in Constructed \ {Newest} :
       CloseEventOf(s) /\ webSocket[Newest] = "OPEN" /\ chatService.ws = Newest =>
         /\ chatService'.ws = Newest
         /\ connectionNotified' = connectionNotified]_vars

\* C27 Local echo implies transmission (ChatService): every call of
\* sendMessage that echoed the message locally and resolved has written its
\* payload to an open socket.
EchoImpliesTransmission ==
  \A i \in 1..Len(calls) :
    calls[i].resolved /\ (\E j \in 1..Len(notified) : notified[j].content = calls[i].content)
      => calls[i].written

\* sendMessage as the step of a call: the echo is the last notification.
EchoedLast ==
  /\ Len(notified') = Len(notified) + 1
  /\ Last(notified').sender = "owner"
  /\ Last(notified').content = Last(calls').content

\* C27 Local echo and transmission (ChatService): every call of sendMessage
\* notifies the listeners with the local echo and resolves; the chat payload
\* is written exactly when this.ws is an open socket, and otherwise nothing
\* is written although the message is shown locally and reported as sent.
EchoRegardlessOfTransmission ==
  [][SendMessageStep =>
       /\ EchoedLast
       /\ Last(calls').resolved
       /\ IF chatService.ws # NoSocket /\ webSocket[chatService.ws] = "OPEN"
            THEN outbox' = [outbox EXCEPT ![chatService.ws] =
                              Append(@, Payload(TRUE, "chat", Last(calls').content, Undefined))]
            ELSE outbox' = outbox]_vars

\* A call of sendMessage was echoed and resolved with nothing written, and
\* another call was written to an open socket.
EchoRegardlessOfTransmissionWitness ==
  /\ \E i \in 1..Len(calls) :
       /\ calls[i].resolved /\ ~calls[i].written
       /\ \E j \in 1..Len(notified) :
            notified[j].sender = "owner" /\ notified[j].content = calls[i].content
  /\ \E i \in 1..Len(calls), s \in Sockets :
       /\ calls[i].written
       /\ \E k \in 1..Len(outbox[s]) : Field(outbox[s][k], "text") = calls[i].content
====
